---- MODULE Spec2Model ----
(***************************************************************************)
(* Deployment scaffolding of the tgbot repository:                         *)
(*   - backup/docker/mongo-init.js, lines 1-35: the MongoDB bootstrap      *)
(*     script (run by mongosh: an uncaught exception of a helper ends the  *)
(*     script with a non-zero exit code);                                  *)
(*   - backup/docker/mongo-init.js, lines 36-55: the batch publish script; *)
(*   - docker-push.sh, lines 1-23: the shell publish script;               *)
(*   - fix_api_path.sh: the patch script;                                  *)
(*   - Dockerfile, lines 19-25: ARG / ENV / EXPOSE of WEB_PORT.            *)
(* One operator runs one script at a time; a script runs to completion     *)
(* before the next one is launched.                                        *)
(***************************************************************************)
EXTENDS Integers, Sequences, FiniteSets, Bags, TLC

VARIABLES
    script,       \* the script being run ("none" before the first launch)
    pc,           \* position in the running script; 0 once it has exited
    exitCode,     \* exit code of the script, meaningful when pc = 0
    status,       \* $? (bash) / ERRORLEVEL (cmd) of the running script
    log,          \* tool commands the current run has executed, in order
    CONFIRM,      \* the CONFIRM variable of the running publish script
    envCONFIRM,   \* value of CONFIRM the publish script was launched with
    answer,       \* the line the operator typed at the confirmation prompt
    cmdCONFIRM,   \* CONFIRM in the operator's cmd session (batch has no setlocal)
    authUsers,    \* users of database tgbot
    collections,  \* collections of database tgbot
    indexes,      \* secondary indexes: records [coll, key, unique]
    settings,     \* _ids of the documents of collection settings
    docs,         \* documents of users / messages / groups, a bag per collection
    lastInsert,   \* outcome of the latest client insert
    template,     \* /app/app/templates/base.html, a sequence of lines
    image,        \* the image built from the Dockerfile
    building,     \* position of the running docker build (0: none)
    container     \* the container started from the image

vars == <<script, pc, exitCode, status, log, CONFIRM, envCONFIRM, answer,
          cmdCONFIRM, authUsers, collections, indexes, settings, docs,
          lastInsert, template, image, building, container>>

runVars == <<script, pc, exitCode, status, log, CONFIRM, envCONFIRM, answer>>
dbVars == <<authUsers, collections, indexes, settings>>
dataVars == <<docs, lastInsert>>
imageVars == <<image, building, container>>

(***************************************************************************)
(* Bounds of the model.                                                    *)
(***************************************************************************)
MaxDocs == 3     \* documents clients insert into the database, in total
MaxLines == 2    \* lines of the template file

Keys == {1, 2}   \* values of an indexed field

None == "none"

(***************************************************************************)
(* mongo-init.js, lines 1-35: the bootstrap script, one record per helper  *)
(* call, in the order of the file.  key is the user name of createUser,    *)
(* the indexed field of createIndex and the _id of insertOne.              *)
(***************************************************************************)
BootScript_settingsFirst ==
    << [op |-> "createUser",       coll |-> "-",        key |-> "admin",        unique |-> FALSE],
       [op |-> "insertOne",        coll |-> "settings", key |-> "bot_settings", unique |-> FALSE],
       [op |-> "createCollection", coll |-> "users",    key |-> "-",            unique |-> FALSE],
       [op |-> "createCollection", coll |-> "messages", key |-> "-",            unique |-> FALSE],
       [op |-> "createCollection", coll |-> "groups",   key |-> "-",            unique |-> FALSE],
       [op |-> "createCollection", coll |-> "settings", key |-> "-",            unique |-> FALSE],
       [op |-> "createIndex",      coll |-> "users",    key |-> "user_id",      unique |-> TRUE],
       [op |-> "createIndex",      coll |-> "messages", key |-> "message_id",   unique |-> FALSE],
       [op |-> "createIndex",      coll |-> "messages", key |-> "chat_id",      unique |-> FALSE],
       [op |-> "createIndex",      coll |-> "messages", key |-> "date",         unique |-> FALSE],
       [op |-> "createIndex",      coll |-> "groups",   key |-> "group_id",     unique |-> TRUE] >>

BootScript_extraCollection ==
    << [op |-> "createUser",       coll |-> "-",        key |-> "admin",        unique |-> FALSE],
       [op |-> "createCollection", coll |-> "users",    key |-> "-",            unique |-> FALSE],
       [op |-> "createCollection", coll |-> "messages", key |-> "-",            unique |-> FALSE],
       [op |-> "createCollection", coll |-> "groups",   key |-> "-",            unique |-> FALSE],
       [op |-> "createCollection", coll |-> "keywords", key |-> "-",            unique |-> FALSE],
       [op |-> "createCollection", coll |-> "settings", key |-> "-",            unique |-> FALSE],
       [op |-> "createIndex",      coll |-> "users",    key |-> "user_id",      unique |-> TRUE],
       [op |-> "createIndex",      coll |-> "messages", key |-> "message_id",   unique |-> FALSE],
       [op |-> "createIndex",      coll |-> "messages", key |-> "chat_id",      unique |-> FALSE],
       [op |-> "createIndex",      coll |-> "messages", key |-> "date",         unique |-> FALSE],
       [op |-> "createIndex",      coll |-> "groups",   key |-> "group_id",     unique |-> TRUE],
       [op |-> "insertOne",        coll |-> "settings", key |-> "bot_settings", unique |-> FALSE] >>

BootScript_usersNotUnique ==
    << [op |-> "createUser",       coll |-> "-",        key |-> "admin",        unique |-> FALSE],
       [op |-> "createCollection", coll |-> "users",    key |-> "-",            unique |-> FALSE],
       [op |-> "createCollection", coll |-> "messages", key |-> "-",            unique |-> FALSE],
       [op |-> "createCollection", coll |-> "groups",   key |-> "-",            unique |-> FALSE],
       [op |-> "createCollection", coll |-> "settings", key |-> "-",            unique |-> FALSE],
       [op |-> "createIndex",      coll |-> "users",    key |-> "user_id",      unique |-> FALSE],
       [op |-> "createIndex",      coll |-> "messages", key |-> "message_id",   unique |-> FALSE],
       [op |-> "createIndex",      coll |-> "messages", key |-> "chat_id",      unique |-> FALSE],
       [op |-> "createIndex",      coll |-> "messages", key |-> "date",         unique |-> FALSE],
       [op |-> "createIndex",      coll |-> "groups",   key |-> "group_id",     unique |-> TRUE],
       [op |-> "insertOne",        coll |-> "settings", key |-> "bot_settings", unique |-> FALSE] >>

BootScript ==
    << [op |-> "createUser",       coll |-> "-",        key |-> "admin",        unique |-> FALSE],
       [op |-> "createCollection", coll |-> "users",    key |-> "-",            unique |-> FALSE],
       [op |-> "createCollection", coll |-> "messages", key |-> "-",            unique |-> FALSE],
       [op |-> "createCollection", coll |-> "groups",   key |-> "-",            unique |-> FALSE],
       [op |-> "createCollection", coll |-> "settings", key |-> "-",            unique |-> FALSE],
       [op |-> "createIndex",      coll |-> "users",    key |-> "user_id",      unique |-> TRUE],
       [op |-> "createIndex",      coll |-> "messages", key |-> "message_id",   unique |-> FALSE],
       [op |-> "createIndex",      coll |-> "messages", key |-> "chat_id",      unique |-> FALSE],
       [op |-> "createIndex",      coll |-> "messages", key |-> "date",         unique |-> FALSE],
       [op |-> "createIndex",      coll |-> "groups",   key |-> "group_id",     unique |-> TRUE],
       [op |-> "insertOne",        coll |-> "settings", key |-> "bot_settings", unique |-> FALSE] >>

\* The collections clients write documents to, and the fields of their documents.
DataColls == {"users", "messages", "groups"}

Fields(c) ==
    CASE c = "users"    -> {"user_id"}
      [] c = "groups"   -> {"group_id"}
      [] c = "messages" -> {"message_id", "chat_id", "date"}

Documents(c) == [Fields(c) -> Keys]

\* Two documents of bag b agree on field k (a second copy of one document counts).
HasDuplicate(b, k) ==
    \E d1 \in DOMAIN b : \E d2 \in DOMAIN b :
        /\ b[d1] > 0 /\ b[d2] > 0
        /\ d1[k] = d2[k]
        /\ (d1 # d2 \/ b[d1] > 1)

TotalDocs == BagCardinality(docs["users"]) + BagCardinality(docs["messages"])
               + BagCardinality(docs["groups"])

Entry(cmd, arg, ok) == [cmd |-> cmd, arg |-> arg, ok |-> ok]

\* A helper call throws: the script stops there, mongosh exits non-zero.
BootThrow(s) ==
    /\ log' = Append(log, Entry(s.op, <<s.coll, s.key>>, FALSE))
    /\ pc' = 0
    /\ exitCode' = 1
    /\ status' = 1
    /\ UNCHANGED dbVars

\* A helper call returns: the script goes on to its next statement and, after
\* the last one, mongosh exits 0.
BootReturn(s) ==
    /\ log' = Append(log, Entry(s.op, <<s.coll, s.key>>, TRUE))
    /\ pc' = IF pc = Len(BootScript) THEN 0 ELSE pc + 1
    /\ exitCode' = 0
    /\ status' = 0

BootAt(op) ==
    /\ script = "mongo-init.js"
    /\ pc \in 1..Len(BootScript)
    /\ BootScript[pc].op = op

restOfBoot == <<CONFIRM, envCONFIRM, answer, script, cmdCONFIRM, dataVars, template, imageVars>>

\* The operator (or the container entry point) starts the bootstrap script.
LaunchBoot ==
    /\ pc = 0
    /\ script' = "mongo-init.js"
    /\ pc' = 1
    /\ exitCode' = 0
    /\ status' = 0
    /\ log' = <<>>
    /\ CONFIRM' = <<>> /\ envCONFIRM' = <<>> /\ answer' = <<>>
    /\ UNCHANGED <<cmdCONFIRM, dbVars, dataVars, template, imageVars>>

\* db.createUser: throws when the user exists already, or when the server
\* cannot be reached (fault).
CreateUser_idempotent ==
    /\ BootAt("createUser")
    /\ \E fault \in BOOLEAN :
         LET s == BootScript[pc] IN
         IF fault
         THEN BootThrow(s)
         ELSE /\ BootReturn(s)
              /\ authUsers' = authUsers \cup {s.key}
              /\ UNCHANGED <<collections, indexes, settings>>
    /\ UNCHANGED restOfBoot

CreateUser ==
    /\ BootAt("createUser")
    /\ \E fault \in BOOLEAN :
         LET s == BootScript[pc] IN
         IF fault \/ s.key \in authUsers
         THEN BootThrow(s)
         ELSE /\ BootReturn(s)
              /\ authUsers' = authUsers \cup {s.key}
              /\ UNCHANGED <<collections, indexes, settings>>
    /\ UNCHANGED restOfBoot

\* db.createCollection: throws (NamespaceExists) when the collection exists.
CreateCollection ==
    /\ BootAt("createCollection")
    /\ \E fault \in BOOLEAN :
         LET s == BootScript[pc] IN
         IF fault \/ s.coll \in collections
         THEN BootThrow(s)
         ELSE /\ BootReturn(s)
              /\ collections' = collections \cup {s.coll}
              /\ UNCHANGED <<authUsers, indexes, settings>>
    /\ UNCHANGED restOfBoot

\* db.<coll>.createIndex: creates the collection when it is missing, does
\* nothing when the same index exists, and throws when a unique index is asked
\* for over documents that share the key.
CreateIndex ==
    /\ BootAt("createIndex")
    /\ \E fault \in BOOLEAN :
         LET s == BootScript[pc] IN
         IF fault \/ (s.unique /\ HasDuplicate(docs[s.coll], s.key))
         THEN BootThrow(s)
         ELSE /\ BootReturn(s)
              /\ collections' = collections \cup {s.coll}
              /\ indexes' = indexes \cup {[coll |-> s.coll, key |-> s.key, unique |-> s.unique]}
              /\ UNCHANGED <<authUsers, settings>>
    /\ UNCHANGED restOfBoot

\* db.settings.insertOne: creates the collection when it is missing and throws
\* (duplicate key on _id) when a document with that _id exists.
InsertOne ==
    /\ BootAt("insertOne")
    /\ \E fault \in BOOLEAN :
         LET s == BootScript[pc] IN
         IF fault \/ s.key \in settings
         THEN BootThrow(s)
         ELSE /\ BootReturn(s)
              /\ collections' = collections \cup {s.coll}
              /\ settings' = settings \cup {s.key}
              /\ UNCHANGED <<authUsers, indexes>>
    /\ UNCHANGED restOfBoot

Boot == LaunchBoot \/ CreateUser \/ CreateCollection \/ CreateIndex \/ InsertOne

(***************************************************************************)
(* Operator input at the confirmation prompt, as sequences of characters.  *)
(***************************************************************************)
Answers == { <<>>, <<"y">>, <<"Y">>, <<"n">>, <<"N">>, <<"y", "e", "s">>, <<" ", "y">> }

\* Values of CONFIRM the shell publish script may inherit from its environment.
PresetValues == { <<>>, <<"Y">> }

Whitespace == {" "}

RECURSIVE TrimLeft(_)
TrimLeft(s) == IF s # <<>> /\ Head(s) \in Whitespace THEN TrimLeft(Tail(s)) ELSE s

RECURSIVE TrimRight(_)
TrimRight(s) ==
    IF s # <<>> /\ s[Len(s)] \in Whitespace THEN TrimRight(SubSeq(s, 1, Len(s) - 1)) ELSE s

\* docker-push.sh line 9, read -p ... CONFIRM: the variable is assigned the
\* line with leading and trailing IFS whitespace removed, whatever it held.
BashRead(old, line) == TrimRight(TrimLeft(line))

\* docker-push.sh line 10, [[ "$CONFIRM" =~ ^[Yy]$ ]].
ShConfirmed(c) == Len(c) = 1 /\ c[1] \in {"Y", "y"}

\* The batch script line 44, set /p CONFIRM=...: an empty line leaves the
\* variable as it was; any other line is stored as typed.
SetP(old, line) == IF line = <<>> THEN old ELSE line

Upper(ch) ==
    CASE ch = "y" -> "Y"
      [] ch = "n" -> "N"
      [] ch = "e" -> "E"
      [] ch = "s" -> "S"
      [] OTHER -> ch

\* The batch script line 45, if /i not "%CONFIRM%"=="Y" exit /b: the script
\* goes on when CONFIRM equals Y, letter case ignored.
BatConfirmed(c) == [i \in 1..Len(c) |-> Upper(c[i])] = <<"Y">>

\* docker-push.sh line 5 and the batch script line 40.
ShUsername == "your-username"
BatUsername == "diciky"

\* <namespace>/tgbot:latest
Target(ns) == [namespace |-> ns, repo |-> "tgbot", tag |-> "latest"]

LocalImage == "tgbot"

restOfPublish == <<dbVars, dataVars, template, imageVars>>

(***************************************************************************)
(* docker-push.sh, lines 1-23.                                             *)
(***************************************************************************)
LaunchPushSh ==
    /\ pc = 0
    /\ \E pre \in PresetValues :
         /\ CONFIRM' = pre
         /\ envCONFIRM' = pre
    /\ script' = "docker-push.sh"
    /\ pc' = 9
    /\ exitCode' = 0 /\ status' = 0 /\ log' = <<>> /\ answer' = <<>>
    /\ UNCHANGED <<cmdCONFIRM, restOfPublish>>

\* line 9
ShPrompt ==
    /\ script = "docker-push.sh" /\ pc = 9
    /\ \E line \in Answers :
         /\ answer' = line
         /\ CONFIRM' = BashRead(CONFIRM, line)
    /\ status' = 0
    /\ pc' = 10
    /\ UNCHANGED <<script, exitCode, log, envCONFIRM, cmdCONFIRM, restOfPublish>>

\* lines 10-13
ShGate ==
    /\ script = "docker-push.sh" /\ pc = 10
    /\ IF ShConfirmed(CONFIRM)
       THEN /\ pc' = 17
            /\ UNCHANGED <<exitCode, status>>
       ELSE /\ pc' = 0
            /\ exitCode' = 1
            /\ status' = 1
    /\ UNCHANGED <<script, log, CONFIRM, envCONFIRM, answer, cmdCONFIRM, restOfPublish>>

\* line 17; the script has no set -e and goes on whatever docker returns
ShTag ==
    /\ script = "docker-push.sh" /\ pc = 17
    /\ \E ok \in BOOLEAN :
         /\ log' = Append(log, Entry("docker tag", <<LocalImage, Target(ShUsername)>>, ok))
         /\ status' = IF ok THEN 0 ELSE 1
    /\ pc' = 21
    /\ UNCHANGED <<script, exitCode, CONFIRM, envCONFIRM, answer, cmdCONFIRM, restOfPublish>>

\* line 21
ShPush ==
    /\ script = "docker-push.sh" /\ pc = 21
    /\ \E ok \in BOOLEAN :
         /\ log' = Append(log, Entry("docker push", <<Target(ShUsername)>>, ok))
         /\ status' = IF ok THEN 0 ELSE 1
    /\ pc' = 23
    /\ UNCHANGED <<script, exitCode, CONFIRM, envCONFIRM, answer, cmdCONFIRM, restOfPublish>>

\* line 23 with the exit status of the last command carried out
ShEcho_keepStatus ==
    /\ script = "docker-push.sh" /\ pc = 23
    /\ pc' = 0
    /\ exitCode' = status
    /\ UNCHANGED <<script, status, log, CONFIRM, envCONFIRM, answer, cmdCONFIRM, restOfPublish>>

\* line 23: echo succeeds, and its status is the script's exit code
ShEcho ==
    /\ script = "docker-push.sh" /\ pc = 23
    /\ status' = 0
    /\ pc' = 0
    /\ exitCode' = 0
    /\ UNCHANGED <<script, log, CONFIRM, envCONFIRM, answer, cmdCONFIRM, restOfPublish>>

PushSh == LaunchPushSh \/ ShPrompt \/ ShGate \/ ShTag \/ ShPush \/ ShEcho

(***************************************************************************)
(* The batch publish script, mongo-init.js lines 36-55.  It runs in the    *)
(* operator's cmd session and has no setlocal: CONFIRM is the session's    *)
(* variable, and ERRORLEVEL is the session's at the launch.                *)
(***************************************************************************)
LaunchPushBat ==
    /\ pc = 0
    /\ script' = "docker-push.bat"
    /\ CONFIRM' = cmdCONFIRM
    /\ envCONFIRM' = cmdCONFIRM
    /\ \E errorlevel \in {0, 1} : status' = errorlevel
    /\ pc' = 44
    /\ exitCode' = 0 /\ log' = <<>> /\ answer' = <<>>
    /\ UNCHANGED <<cmdCONFIRM, restOfPublish>>

\* line 44: an empty line also sets ERRORLEVEL to 1
BatPrompt ==
    /\ script = "docker-push.bat" /\ pc = 44
    /\ \E line \in Answers :
         /\ answer' = line
         /\ CONFIRM' = SetP(CONFIRM, line)
         /\ cmdCONFIRM' = SetP(CONFIRM, line)
         /\ status' = IF line = <<>> THEN 1 ELSE status
    /\ pc' = 45
    /\ UNCHANGED <<script, exitCode, log, envCONFIRM, restOfPublish>>

\* line 45: exit /b without a code leaves ERRORLEVEL as the exit code
BatGate ==
    /\ script = "docker-push.bat" /\ pc = 45
    /\ IF BatConfirmed(CONFIRM)
       THEN /\ pc' = 49
            /\ UNCHANGED exitCode
       ELSE /\ pc' = 0
            /\ exitCode' = status
    /\ UNCHANGED <<script, status, log, CONFIRM, envCONFIRM, answer, cmdCONFIRM, restOfPublish>>

\* line 49
BatTag ==
    /\ script = "docker-push.bat" /\ pc = 49
    /\ \E ok \in BOOLEAN :
         /\ log' = Append(log, Entry("docker tag", <<LocalImage, Target(BatUsername)>>, ok))
         /\ status' = IF ok THEN 0 ELSE 1
    /\ pc' = 53
    /\ UNCHANGED <<script, exitCode, CONFIRM, envCONFIRM, answer, cmdCONFIRM, restOfPublish>>

\* line 53
BatPush ==
    /\ script = "docker-push.bat" /\ pc = 53
    /\ \E ok \in BOOLEAN :
         /\ log' = Append(log, Entry("docker push", <<Target(BatUsername)>>, ok))
         /\ status' = IF ok THEN 0 ELSE 1
    /\ pc' = 55
    /\ UNCHANGED <<script, exitCode, CONFIRM, envCONFIRM, answer, cmdCONFIRM, restOfPublish>>

\* line 55: echo leaves ERRORLEVEL alone; the script ends with it
BatEcho ==
    /\ script = "docker-push.bat" /\ pc = 55
    /\ pc' = 0
    /\ exitCode' = status
    /\ UNCHANGED <<script, status, log, CONFIRM, envCONFIRM, answer, cmdCONFIRM, restOfPublish>>

PushBat == LaunchPushBat \/ BatPrompt \/ BatGate \/ BatTag \/ BatPush \/ BatEcho

(***************************************************************************)
(* fix_api_path.sh.  A line of the template is a sequence of tokens: the   *)
(* words of the sed expression are tokens of their own, and ".", "_" and   *)
(* "x" are single characters.                                              *)
(***************************************************************************)
SingleChars == {".", "_", "x"}

\* line 7, the regular expression axios.defaults.baseURL = .* up to its .*
\* (an unescaped "." stands for any one character)
Pattern == <<"axios", ".", "defaults", ".", "baseURL = ">>

\* line 7, the replacement axios.defaults.baseURL = "";
Replacement == <<"axios", ".", "defaults", ".", "baseURL = ", "\"\";">>

TokenMatches(p, t) ==
    IF p = "." THEN t \in SingleChars ELSE p = t

\* The expression matches line from position i on (its .* takes the rest).
MatchesAt(line, i) ==
    /\ i + Len(Pattern) - 1 <= Len(line)
    /\ \A j \in 1..Len(Pattern) : TokenMatches(Pattern[j], line[i + j - 1])

\* s/.../.../g on one line: the leftmost match runs to the end of the line,
\* so there is one substitution at most.
SedLine(line) ==
    LET hits == {i \in 1..Len(line) : MatchesAt(line, i)} IN
    IF hits = {} THEN line
    ELSE LET first == CHOOSE i \in hits : \A k \in hits : i <= k
         IN SubSeq(line, 1, first - 1) \o Replacement

SedFile(file) == [n \in 1..Len(file) |-> SedLine(file[n])]

restOfPatch == <<CONFIRM, envCONFIRM, answer, cmdCONFIRM, dbVars, dataVars, imageVars>>

\* line 4
LaunchPatch ==
    /\ pc = 0
    /\ script' = "fix_api_path.sh"
    /\ pc' = 5
    /\ exitCode' = 0 /\ status' = 0 /\ log' = <<>>
    /\ CONFIRM' = <<>> /\ envCONFIRM' = <<>> /\ answer' = <<>>
    /\ UNCHANGED <<cmdCONFIRM, dbVars, dataVars, template, imageVars>>

\* line 5: docker exec starts bash in the container, or fails (no such
\* container, no terminal) and the script goes on to line 11
PatchExec ==
    /\ script = "fix_api_path.sh" /\ pc = 5
    /\ \E up \in BOOLEAN :
         IF up
         THEN /\ pc' = 7
              /\ UNCHANGED <<log, status>>
         ELSE /\ pc' = 11
              /\ log' = Append(log, Entry("docker exec", <<"tgbot-app">>, FALSE))
              /\ status' = 1
    /\ UNCHANGED <<script, exitCode, template, restOfPatch>>

\* lines 6-7, in the container: sed rewrites the file, or fails (no such file)
PatchSed ==
    /\ script = "fix_api_path.sh" /\ pc = 7
    /\ \E ok \in BOOLEAN :
         /\ log' = Append(log, Entry("sed", <<"base.html">>, ok))
         /\ template' = IF ok THEN SedFile(template) ELSE template
         /\ status' = IF ok THEN 0 ELSE 1
    /\ pc' = 8
    /\ UNCHANGED <<script, exitCode, restOfPatch>>

\* line 8: the echo ends the container's bash with status 0, which is the
\* status of docker exec
PatchInnerEcho ==
    /\ script = "fix_api_path.sh" /\ pc = 8
    /\ log' = Append(log, Entry("docker exec", <<"tgbot-app">>, TRUE))
    /\ status' = 0
    /\ pc' = 11
    /\ UNCHANGED <<script, exitCode, template, restOfPatch>>

\* line 11: echo succeeds, and its status is the script's exit code
PatchEcho ==
    /\ script = "fix_api_path.sh" /\ pc = 11
    /\ status' = 0
    /\ pc' = 0
    /\ exitCode' = 0
    /\ UNCHANGED <<script, log, template, restOfPatch>>

Patch == LaunchPatch \/ PatchExec \/ PatchSed \/ PatchInnerEcho \/ PatchEcho

\* Lines a template may hold.
SampleLines ==
    { <<"x">>,
      <<"axios", ".", "defaults", ".", "baseURL = ", "'/api';">>,
      <<"x", "axios", ".", "defaults", ".", "baseURL = ">>,
      <<"axios", "_", "defaults", "_", "baseURL = ", "'/api';">>,
      <<"axios", "x", "defaults", ".", "baseURL = ", "x", "axios", ".", "defaults", ".", "baseURL = ", "'/api';">>,
      <<"axios", ".", "defaults">>,
      <<"axios", ".", "defaults", ".", "baseURL = ", "\"\";">> }

Templates == UNION { [1..n -> SampleLines] : n \in 1..MaxLines }

\* The template the container is deployed with.
DeployedTemplate == << <<"x">>, <<"axios", ".", "defaults", ".", "baseURL = ", "'/api';">> >>

(***************************************************************************)
(* Dockerfile, lines 19-25.                                                *)
(***************************************************************************)
Ports == {"7000", "8000", "9000"}

\* line 20, ARG WEB_PORT=7000
DefaultPort == "7000"

\* docker build, with or without --build-arg WEB_PORT=<port>
StartBuild ==
    /\ building = 0
    /\ \E arg \in Ports \cup {None} :
         image' = [built |-> FALSE, buildArg |-> arg, ARG |-> None, ENV |-> None, EXPOSE |-> {}]
    /\ building' = 20
    /\ UNCHANGED <<container, runVars, cmdCONFIRM, dbVars, dataVars, template>>

\* line 20
StepArg ==
    /\ building = 20
    /\ image' = [image EXCEPT !.ARG = IF image.buildArg = None THEN DefaultPort ELSE image.buildArg]
    /\ building' = 21
    /\ UNCHANGED <<container, runVars, cmdCONFIRM, dbVars, dataVars, template>>

\* line 21
StepEnv ==
    /\ building = 21
    /\ image' = [image EXCEPT !.ENV = image.ARG]
    /\ building' = 22
    /\ UNCHANGED <<container, runVars, cmdCONFIRM, dbVars, dataVars, template>>

\* line 22 with the port written out
StepExpose_literal ==
    /\ building = 22
    /\ image' = [image EXCEPT !.EXPOSE = {DefaultPort}]
    /\ building' = 25
    /\ UNCHANGED <<container, runVars, cmdCONFIRM, dbVars, dataVars, template>>

\* line 22
StepExpose ==
    /\ building = 22
    /\ image' = [image EXCEPT !.EXPOSE = {image.ARG}]
    /\ building' = 25
    /\ UNCHANGED <<container, runVars, cmdCONFIRM, dbVars, dataVars, template>>

\* line 25: the image is complete
StepCmd ==
    /\ building = 25
    /\ image' = [image EXCEPT !.built = TRUE]
    /\ building' = 0
    /\ UNCHANGED <<container, runVars, cmdCONFIRM, dbVars, dataVars, template>>

\* docker run of the image, with or without -e WEB_PORT=<port>: the
\* environment of the application is the image's ENV unless overridden, the
\* exposed ports are the image's
RunContainer ==
    /\ building = 0
    /\ image.built
    /\ \E e \in Ports \cup {None} :
         container' = [running  |-> TRUE,
                       buildArg |-> image.buildArg,
                       runEnv   |-> e,
                       WEB_PORT |-> IF e = None THEN image.ENV ELSE e,
                       exposed  |-> image.EXPOSE]
    /\ UNCHANGED <<image, building, runVars, cmdCONFIRM, dbVars, dataVars, template>>

Build == StartBuild \/ StepArg \/ StepEnv \/ StepExpose \/ StepCmd \/ RunContainer

(***************************************************************************)
(* A client of the database inserts a document.  The insert creates the    *)
(* collection when it is missing; a unique index of the collection rejects *)
(* a document whose key a stored document has.                             *)
(***************************************************************************)
Rejected(c, d) ==
    \E ix \in indexes :
        /\ ix.coll = c
        /\ ix.unique
        /\ \E e \in DOMAIN docs[c] : docs[c][e] > 0 /\ e[ix.key] = d[ix.key]

ClientInsert ==
    /\ pc = 0
    /\ \E c \in DataColls : \E d \in Documents(c) :
         IF Rejected(c, d)
         THEN /\ lastInsert' = [coll |-> c, doc |-> d, ok |-> FALSE]
              /\ UNCHANGED <<docs, collections>>
         ELSE /\ TotalDocs < MaxDocs
              /\ lastInsert' = [coll |-> c, doc |-> d, ok |-> TRUE]
              /\ docs' = [docs EXCEPT ![c] = @ (+) SetToBag({d})]
              /\ collections' = collections \cup {c}
    /\ UNCHANGED <<authUsers, indexes, settings, runVars, cmdCONFIRM, template, imageVars>>

NoInsert == [coll |-> None, doc |-> <<>>, ok |-> TRUE]

InitRun ==
    /\ script = None /\ pc = 0 /\ exitCode = 0 /\ status = 0 /\ log = <<>>
    /\ CONFIRM = <<>> /\ envCONFIRM = <<>> /\ answer = <<>>
    /\ cmdCONFIRM = <<>>

InitDb ==
    /\ authUsers = {} /\ collections = {} /\ indexes = {} /\ settings = {}
    /\ docs = [c \in DataColls |-> EmptyBag]
    /\ lastInsert = NoInsert

InitImage ==
    /\ image = [built |-> FALSE, buildArg |-> None, ARG |-> None, ENV |-> None, EXPOSE |-> {}]
    /\ building = 0
    /\ container = [running |-> FALSE, buildArg |-> None, runEnv |-> None, WEB_PORT |-> None, exposed |-> {}]

Init ==
    /\ InitRun /\ InitDb /\ InitImage
    /\ template = DeployedTemplate

Next == Boot \/ PushSh \/ PushBat \/ Patch

Spec == Init /\ [][Next]_vars

\* The bootstrap script and the clients of the database.
NextDb == Boot \/ ClientInsert

SpecDb == Init /\ [][NextDb]_vars

\* The patch script on any template.
InitPatch ==
    /\ InitRun /\ InitDb /\ InitImage
    /\ template \in Templates

SpecPatch == InitPatch /\ [][Patch]_vars

\* Building the image and running the container.
SpecImage == Init /\ [][Build]_vars

(***************************************************************************)
(* Properties.                                                             *)
(***************************************************************************)
Exited(name) == script = name /\ pc = 0

Failed == \E i \in 1..Len(log) : ~log[i].ok

FourCollections == {"users", "messages", "groups", "settings"}

FiveIndexes ==
    { <<"users", "user_id">>, <<"messages", "message_id">>, <<"messages", "chat_id">>,
      <<"messages", "date">>, <<"groups", "group_id">> }

IndexKeys == { <<ix.coll, ix.key>> : ix \in indexes }

HasIndex(c, k) == <<c, k>> \in IndexKeys

\* C1: after a complete run of the bootstrap script (it started on an empty
\* deployment: no run completes otherwise) the database holds exactly the
\* collections users, messages, groups and settings, and settings holds
\* exactly one document, with _id bot_settings.
C1_BootstrapResult ==
    (Exited("mongo-init.js") /\ exitCode = 0)
        => /\ collections = FourCollections
           /\ settings = {"bot_settings"}

C1_Witness == Exited("mongo-init.js") /\ exitCode = 0 /\ Len(log) >= 11

\* C2: with the index on users.user_id (groups.group_id) in place no two
\* documents of users (groups) share a user_id (group_id); an insert that
\* repeats a stored key is rejected and leaves every collection as it was;
\* an insert into messages is never rejected.
C2_Inv ==
    /\ HasIndex("users", "user_id") => ~HasDuplicate(docs["users"], "user_id")
    /\ HasIndex("groups", "group_id") => ~HasDuplicate(docs["groups"], "group_id")
    /\ lastInsert.coll = "messages" => lastInsert.ok

C2_Step ==
    /\ (lastInsert' # lastInsert /\ ~lastInsert'.ok) => docs' = docs
    /\ \A c \in {"users", "groups"} :
         (/\ lastInsert' # lastInsert
          /\ lastInsert'.coll = c
          /\ \E ix \in indexes : ix.coll = c
          /\ \E e \in DOMAIN docs[c] : \E k \in Fields(c) :
                docs[c][e] > 0 /\ e[k] = lastInsert'.doc[k])
            => (~lastInsert'.ok /\ docs' = docs)

\* C2: the invariant in every state, the rejection at every step.
C2_UniqueKeys == []C2_Inv /\ [][C2_Step]_vars

C2_Witness ==
    /\ HasIndex("users", "user_id")
    /\ lastInsert.coll = "users" /\ ~lastInsert.ok
    /\ HasIndex("messages", "message_id")
    /\ HasDuplicate(docs["messages"], "message_id")

Range(f) == { f[i] : i \in DOMAIN f }

\* An answer that is y or Y once its blanks are dropped.
Affirmative(a) == SelectSeq(a, LAMBDA ch : ch # " ") \in { <<"y">>, <<"Y">> }

Publishing == script \in {"docker-push.sh", "docker-push.bat"}

\* C3: a publish script that got an answer other than y / Y (the empty answer
\* included) executes neither docker tag nor docker push.
C3_Claim == (Publishing /\ ~Affirmative(answer)) => log = <<>>

FullyProvisioned ==
    /\ "admin" \in authUsers
    /\ collections = FourCollections
    /\ IndexKeys = FiveIndexes
    /\ settings = {"bot_settings"}

\* C4: on a fully provisioned database no step changes the user, the
\* collections, the indexes or the settings document, and a bootstrap run
\* launched there ends at its first statement with an error.
C4_Step ==
    FullyProvisioned
        => /\ authUsers' = authUsers /\ collections' = collections
           /\ indexes' = indexes /\ settings' = settings
           /\ (script = "mongo-init.js" /\ pc = 1 /\ pc' # pc)
                => (pc' = 0 /\ exitCode' # 0 /\ ~log'[Len(log')].ok)

\* C4: every step of every behaviour leaves a fully provisioned database as
\* it was, and a re-run reports its error at the first statement.
C4_RerunFailsCleanly == [][C4_Step]_vars

C4_Witness == FullyProvisioned /\ Exited("mongo-init.js") /\ exitCode # 0

PortOf(c) == IF c.buildArg = None THEN "7000" ELSE c.buildArg

\* C5 as claimed: the container exposes the port that is the value of WEB_PORT
\* in the application's environment, 7000 when WEB_PORT was given nowhere.
C5_Claim ==
    container.running
        => /\ container.exposed = {container.WEB_PORT}
           /\ (container.buildArg = None /\ container.runEnv = None)
                 => container.exposed = {"7000"}

\* C5, amended: the container exposes the port given as the build argument
\* WEB_PORT, 7000 without one; the application's WEB_PORT is that port unless
\* the container was started with a WEB_PORT of its own, which it then is.
C5_Amended ==
    container.running
        => /\ container.exposed = {PortOf(container)}
           /\ container.runEnv = None => container.WEB_PORT = PortOf(container)
           /\ container.runEnv # None => container.WEB_PORT = container.runEnv

C5_Witness ==
    /\ container.running
    /\ container.buildArg \notin {None, "7000"}
    /\ container.runEnv \notin {None, container.buildArg}

\* C6: docker push runs only after an affirmative answer and after docker tag
\* of the same run, each runs once at most, and both name the target
\* <namespace>/tgbot:latest, tagged from the local image tgbot.
C6_Claim ==
    Publishing =>
        /\ \A i \in 1..Len(log) :
             log[i].cmd = "docker push" =>
                /\ Affirmative(answer)
                /\ \E j \in 1..(i - 1) :
                     /\ log[j].cmd = "docker tag"
                     /\ log[j].arg[1] = "tgbot"
                     /\ log[j].arg[2] = log[i].arg[1]
                /\ log[i].arg[1].repo = "tgbot" /\ log[i].arg[1].tag = "latest"
        /\ \A i \in 1..Len(log) : \A j \in 1..Len(log) :
             (i # j) => log[i].cmd # log[j].cmd

\* C7 as claimed: a script in which a tool step failed exits non-zero.
C7_Claim == (script # None /\ pc = 0 /\ Failed) => exitCode # 0

NoRetry ==
    \A i \in 1..Len(log) : \A j \in 1..Len(log) :
        (i # j) => <<log[i].cmd, log[i].arg>> # <<log[j].cmd, log[j].arg>>

\* C7, amended: no script runs a step twice; the bootstrap script stops at the
\* failed step and exits non-zero; the batch publish script exits non-zero
\* exactly when docker push failed; the shell publish script, past its
\* prompt, and the patch script exit 0 whatever failed.
C7_Amended ==
    /\ script # None => NoRetry
    /\ script = "mongo-init.js" =>
          /\ \A i \in 1..Len(log) : ~log[i].ok => (i = Len(log) /\ pc = 0)
          /\ pc = 0 => (exitCode # 0 <=> Failed)
    /\ (Exited("docker-push.bat") /\ log # <<>>) =>
          (exitCode # 0 <=> ~log[Len(log)].ok)
    /\ (Exited("docker-push.sh") /\ log # <<>>) => exitCode = 0
    /\ Exited("fix_api_path.sh") => exitCode = 0

C7_Witness == Exited("docker-push.sh") /\ Failed /\ exitCode = 0

Literal == <<"axios", ".", "defaults", ".", "baseURL = ">>

TextAt(line, i) == i + 4 <= Len(line) /\ SubSeq(line, i, i + 4) = Literal

ContainsText(line) == \E i \in 1..Len(line) : TextAt(line, i)

ClaimedLine(line) ==
    IF ContainsText(line)
    THEN LET i == CHOOSE i \in 1..Len(line) :
                    TextAt(line, i) /\ \A k \in 1..(i - 1) : ~TextAt(line, k)
         IN SubSeq(line, 1, i - 1) \o Literal \o << "\"\";" >>
    ELSE line

\* C8: when sed has run, every line that held the text
\* 'axios.defaults.baseURL = ' has it and the rest of the line replaced by
\* 'axios.defaults.baseURL = "";', every other line is as before, and the
\* substitution applied again changes nothing.
C8_Step ==
    (script = "fix_api_path.sh" /\ pc = 7 /\ pc' = 8 /\ log'[Len(log')].ok)
        => /\ template' = [n \in 1..Len(template) |-> ClaimedLine(template[n])]
           /\ SedFile(template') = template'

\* C8: the substitution is as stated at every run of sed.
C8_Claim == [][C8_Step]_vars

\* The publish script has passed or left its confirmation gate.
Decided == Publishing /\ pc \notin {9, 10, 44, 45}

Proceeded == pc # 0 \/ log # <<>>

\* C9 (the decision, on answers without blanks): whatever CONFIRM held before
\* the prompt, a publish script goes on to tag and push exactly when the
\* answer is the letter y or Y, and the shell and the batch variant, given
\* the same answer and the same CONFIRM, decide alike.
C9_Claim ==
    (Decided /\ " " \notin Range(answer)) =>
        /\ Proceeded <=> answer \in { <<"y">>, <<"Y">> }
        /\ ShConfirmed(BashRead(envCONFIRM, answer)) <=> BatConfirmed(SetP(envCONFIRM, answer))

\* C10: the bootstrap script runs createUser, four createCollection, five
\* createIndex and insertOne in this order and stops at the first failure;
\* the settings document implies the user, the four collections and the five
\* indexes, an index implies the four collections, a collection the user.
StepOrder ==
    << "createUser", "createCollection", "createCollection", "createCollection",
       "createCollection", "createIndex", "createIndex", "createIndex",
       "createIndex", "createIndex", "insertOne" >>

\* C10: the order of the steps, the stop at the first failure, and the three
\* implications, in every reachable state.
C10_Order ==
    /\ script = "mongo-init.js" =>
          /\ Len(log) <= Len(StepOrder)
          /\ \A i \in 1..Len(log) :
                /\ log[i].cmd = StepOrder[i]
                /\ ~log[i].ok => (i = Len(log) /\ pc = 0)
    /\ "bot_settings" \in settings =>
          /\ "admin" \in authUsers
          /\ FourCollections \subseteq collections
          /\ FiveIndexes \subseteq IndexKeys
    /\ indexes # {} => FourCollections \subseteq collections
    /\ collections # {} => "admin" \in authUsers

C10_Witness ==
    /\ Exited("mongo-init.js") /\ exitCode # 0
    /\ indexes # {} /\ settings = {}
====
